---- MODULE Spec2Model ----
(***************************************************************************)
(* A model of the travel planner of src/langchain_planner.py:              *)
(*   - parse_date_with_reference, the date resolver (lines 17-63);         *)
(*   - get_weather_forecast, the weather tool (lines 99-158);              *)
(*   - LangChainTravelPlanner.plan_trip, the orchestrator (lines 251-313), *)
(*     with its two callers (src/app.py:72-87, langchain_planner.py:331).  *)
(* Each component has its own specification: SpecDate, SpecWeather,        *)
(* SpecPlan.  Spec is their union.                                         *)
(***************************************************************************)
EXTENDS Integers, Sequences, FiniteSets, TLC

VARIABLES
    \* ---- parse_date_with_reference ----
    date_str,            \* the argument date_str, as the facts the regexes and parsers read
    reference_date,      \* the argument reference_date, a datetime.date
    dateutil_available,  \* whether `from dateutil import parser` succeeds in this environment
    d_pc,                \* "off" | "call" | "done"
    d_out,               \* what the call did: returned a date, or raised
    \* ---- get_weather_forecast ----
    w_pc,                \* "off" | "start" | "geo_status" | ... | "done"
    location,            \* the argument location
    geo_response,        \* the geocoding response (status, body)
    weather_response,    \* the forecast response (status, body)
    forecast_sent,       \* whether requests.get(base_url, ...) has been issued
    w_out,               \* what the call did: returned text, or raised
    \* ---- LangChainTravelPlanner ----
    chat_history,        \* self.chat_history
    p_pc,                \* "off" | "idle" | "read" | "convert" | "format" | "invoke" | "unwrap" | "returned" | "raised"
    request_data,        \* the argument request_data of the call in progress
    response,            \* the value of agent_executor.ainvoke
    result,              \* the value plan_trip returned
    raised_in,           \* the stage of the call in progress that raised, or "none"
    raised_exc,          \* the exception that stage raised, or "none"
    hist_at_call,        \* history: self.chat_history when the call in progress began
    calls                \* history: one record per finished call, in order

dvars == <<date_str, reference_date, dateutil_available, d_pc, d_out>>
wvars == <<w_pc, location, geo_response, weather_response, forecast_sent, w_out>>
pvars == <<chat_history, p_pc, request_data, response, result, raised_in, raised_exc,
           hist_at_call, calls>>
vars == <<dvars, wvars, pvars>>

(***************************************************************************)
(* Bounds of the model.                                                    *)
(***************************************************************************)
\* reference dates and explicit years range over 2024 .. 2024 + YearSpan
YearSpan == 1
\* a caller passes at most MaxTurns prior turns with one request
MaxTurns == 2
\* at most MaxCalls calls of plan_trip on one planner
MaxCalls == 2
\* the forecast covers at most MaxForecastDays days
MaxForecastDays == 1

(***************************************************************************)
(* Calendar arithmetic of datetime.date.                                   *)
(***************************************************************************)
Years == 2024 .. (2024 + YearSpan)
\* the months and days the model draws dates from: the first and last month,
\* a 30-day month and February; the first and last days of a month and the
\* days of the documented scenarios.
SampleMonths == {1, 2, 6, 12}
SampleDays == {1, 2, 10, 23, 28, 29, 30, 31}

IsLeap(y) == (y % 4 = 0) /\ ((y % 100 # 0) \/ (y % 400 = 0))

DaysInMonth(m, y) ==
    IF m = 2 THEN (IF IsLeap(y) THEN 29 ELSE 28)
    ELSE IF m \in {4, 6, 9, 11} THEN 30 ELSE 31

ValidDate(y, m, d) == m \in 1..12 /\ d \in 1..DaysInMonth(m, y)

MkDate(y, m, d) == [year |-> y, month |-> m, day |-> d]

NoDate == MkDate(0, 0, 0)

\* a < b on datetime.date
Earlier(a, b) ==
    \/ a.year < b.year
    \/ a.year = b.year /\ a.month < b.month
    \/ a.year = b.year /\ a.month = b.month /\ a.day < b.day

ReferenceDates ==
    {MkDate(y, m, d) : <<y, m, d>> \in
        {t \in Years \X SampleMonths \X SampleDays : ValidDate(t[1], t[2], t[3])}}

(***************************************************************************)
(* Date strings.  A string is modelled by what the three regexes, strptime *)
(* and the lenient parser read from it:                                    *)
(*   shape  "MonthDay": <word><space><1-2 digits>[suffix][, <year>]        *)
(*          "Slash":    <1-2 digits>/<1-2 digits>[/<year>]                 *)
(*          "Iso":      <year>-<month>-<day>                               *)
(*          "Garbage":  no date at all                                     *)
(*   name   how the word of a MonthDay string names the month: "full"      *)
(*          (December), "abbr" (Dec), "other" (not a month name)           *)
(*   year   the explicit year, 0 when the string has none                  *)
(***************************************************************************)
DateStr(sh, nm, m, d, sx, y) ==
    [shape |-> sh, name |-> nm, month |-> m, day |-> d, suffix |-> sx, year |-> y]

DateStrings ==
    {DateStr("MonthDay", "full", m, d, sx, y) :
        <<m, d, sx, y>> \in SampleMonths \X SampleDays \X BOOLEAN \X ({0} \cup Years)}
    \cup {DateStr("MonthDay", "abbr", m, d, FALSE, y) :
        <<m, d, y>> \in SampleMonths \X SampleDays \X ({0} \cup Years)}
    \cup {DateStr("MonthDay", "other", 0, d, FALSE, 0) : d \in SampleDays}
    \cup {DateStr("Slash", "digits", m, d, FALSE, y) :
        <<m, d, y>> \in SampleMonths \X SampleDays \X ({0} \cup Years)}
    \cup {DateStr("Iso", "digits", m, d, FALSE, y) :
        <<m, d, y>> \in SampleMonths \X SampleDays \X Years}
    \cup {DateStr("Garbage", "other", 0, 0, FALSE, 0)}

(***************************************************************************)
(* parse_date_with_reference                                               *)
(***************************************************************************)
\* the table `formats`: the regex of each entry and the format string paired
\* with it
formats ==
    << [regex |-> "word_day_suffix", date_format |-> "%B %d"],
       [regex |-> "word_day",        date_format |-> "%B %d"],
       [regex |-> "digits_slash_digits", date_format |-> "%m/%d"] >>

NoMatch == [matched |-> FALSE, month |-> [kind |-> "none", num |-> 0], day |-> 0]

\* re.match(pattern, date_str, re.IGNORECASE): anchored at the start only, so
\* whatever follows the day (a suffix, ", 2025", "/2025") is ignored.  \w+ does
\* not cross '/' or '-', so the word patterns match MonthDay strings alone.
ReMatch(regex, s) ==
    IF regex \in {"word_day_suffix", "word_day"}
    THEN IF s.shape = "MonthDay"
         THEN [matched |-> TRUE, month |-> [kind |-> s.name, num |-> s.month], day |-> s.day]
         ELSE NoMatch
    ELSE IF s.shape = "Slash"
         THEN [matched |-> TRUE, month |-> [kind |-> "digits", num |-> s.month], day |-> s.day]
         ELSE NoMatch

\* datetime.strptime(f"{month} {day} {year}", "%B %d %Y").date(): the format
\* is "%B %d %Y" whatever the entry's date_format is; %B takes a full month
\* name only, and the day must exist in that month of that year.
Strptime(month, day, year) ==
    IF month.kind = "full" /\ ValidDate(year, month.num, day)
    THEN [ok |-> TRUE, value |-> MkDate(year, month.num, day)]
    ELSE [ok |-> FALSE, value |-> NoDate]

\* parsed_date.replace(year=y): ValueError when the day does not exist in y
ReplaceYear(d, y) ==
    IF ValidDate(y, d.month, d.day)
    THEN [ok |-> TRUE, value |-> MkDate(y, d.month, d.day)]
    ELSE [ok |-> FALSE, value |-> NoDate]

\* a guard that never rolls over
RolloverNever(parsed, ref) == FALSE

\* a guard without the December 31 exception
RolloverOnDec31Too(parsed, ref) == Earlier(parsed, ref)

\* the guard of the year rollover (lines 46 and 56)
NeedsRollover(parsed, ref) ==
    Earlier(parsed, ref) /\ <<ref.month, ref.day>> # <<12, 31>>

Returned(d, path) == [kind |-> "returned", value |-> d, path |-> path, exc |-> "none"]

Raised(e, path) == [kind |-> "raised", value |-> NoDate, path |-> path, exc |-> e]

Continue == [kind |-> "continue", value |-> NoDate, path |-> "pattern", exc |-> "none"]

\* one iteration of the loop over formats (lines 38-50)
TryFormat(i, s, ref) ==
    LET m == ReMatch(formats[i].regex, s) IN
    IF ~m.matched THEN Continue
    ELSE LET p == Strptime(m.month, m.day, ref.year) IN
         IF ~p.ok THEN Continue                      \* ValueError: continue
         ELSE IF NeedsRollover(p.value, ref)
              THEN LET r == ReplaceYear(p.value, ref.year + 1) IN
                   IF r.ok THEN Returned(r.value, "pattern")
                   ELSE Continue                     \* ValueError: continue
              ELSE Returned(p.value, "pattern")

RECURSIVE PatternLoop(_, _, _)
PatternLoop(i, s, ref) ==
    IF i > Len(formats) THEN Continue
    ELSE LET t == TryFormat(i, s, ref) IN
         IF t.kind = "returned" THEN t ELSE PatternLoop(i + 1, s, ref)

\* dateutil's parser.parse(date_str, default=reference_date): the fields it
\* reads from the string, the others taken from default; ParserError (a
\* ValueError) when it reads no date or the fields name no calendar day.
\* The result is default.replace(...), a datetime.date like default.
DateutilParse(s, ref) ==
    IF s.shape = "Garbage" \/ (s.shape = "MonthDay" /\ s.name = "other")
    THEN [ok |-> FALSE, value |-> NoDate]
    ELSE LET y == IF s.year = 0 THEN ref.year ELSE s.year IN
         IF ValidDate(y, s.month, s.day)
         THEN [ok |-> TRUE, value |-> MkDate(y, s.month, s.day)]
         ELSE [ok |-> FALSE, value |-> NoDate]

\* lines 53-60: ImportError and ValueError are passed over; the parsed value
\* is a datetime.date, which has no method date(), so `.date()` raises
\* AttributeError, which the except clause does not name.
Lenient(s, ref, available) ==
    IF ~available THEN Continue                      \* ImportError: pass
    ELSE LET p == DateutilParse(s, ref) IN
         IF ~p.ok THEN Continue                      \* ValueError: pass
         ELSE Raised("AttributeError", "lenient")

parse_date_with_reference(s, ref, available) ==
    LET byPattern == PatternLoop(1, s, ref) IN
    IF byPattern.kind = "returned" THEN byPattern
    ELSE LET byLenient == Lenient(s, ref, available) IN
         IF byLenient.kind # "continue" THEN byLenient
         ELSE Returned(ref, "fallback")              \* line 63

NoOutcome == [kind |-> "none", value |-> NoDate, path |-> "none", exc |-> "none"]

DateOff ==
    /\ date_str = DateStr("Garbage", "other", 0, 0, FALSE, 0)
    /\ reference_date = MkDate(2024, 1, 1)
    /\ dateutil_available = FALSE
    /\ d_pc = "off"
    /\ d_out = NoOutcome

DateInit ==
    /\ date_str \in DateStrings
    /\ reference_date \in ReferenceDates
    /\ dateutil_available \in BOOLEAN
    /\ d_pc = "call"
    /\ d_out = NoOutcome

\* one call parse_date_with_reference(date_str, reference_date)
Resolve ==
    /\ d_pc = "call"
    /\ d_out' = parse_date_with_reference(date_str, reference_date, dateutil_available)
    /\ d_pc' = "done"
    /\ UNCHANGED <<date_str, reference_date, dateutil_available, wvars, pvars>>

(***************************************************************************)
(* Python's exception classes, as far as the except clauses read them.     *)
(***************************************************************************)
\* the class each exception class derives from
ExceptionBase ==
    [c \in {"Exception", "KeyboardInterrupt", "CancelledError", "SystemExit"}
        |-> "BaseException"]
    @@ [c \in {"AttributeError", "TypeError", "LookupError", "ValueError", "OSError",
               "APIError"} |-> "Exception"]
    @@ [c \in {"KeyError", "IndexError"} |-> "LookupError"]
    @@ [c \in {"ValidationError", "JSONDecodeError"} |-> "ValueError"]
    @@ [c \in {"RequestException"} |-> "OSError"]
    @@ [c \in {"ConnectionError", "HTTPError"} |-> "RequestException"]

RECURSIVE IsSubclass(_, _)
IsSubclass(c, base) ==
    \/ c = base
    \/ c \in DOMAIN ExceptionBase /\ IsSubclass(ExceptionBase[c], base)

\* a handler that names ValueError where the code names Exception
CaughtOnlyValueError(e) == IsSubclass(e, "ValueError")

\* `except Exception as e` (lines 157 and 307)
CaughtByExcept(e) == IsSubclass(e, "Exception")

(***************************************************************************)
(* get_weather_forecast                                                    *)
(***************************************************************************)
Locations == {"Paris,France", "Atlantis", "Tokyo,Japan"}

\* what the geocoding service can answer: no answer at all (transport
\* failure), or a status and a body
GeoBodies ==
    {"not_json", "not_an_object", "no_results_key", "empty_results",
     "result_without_coordinates", "result"}

NoResponse == [transport |-> "none", status |-> "none", body |-> "none", days |-> 0]

TransportFailure == [transport |-> "failed", status |-> "none", body |-> "none", days |-> 0]

GeoResponses ==
    {TransportFailure}
    \cup {[transport |-> "ok", status |-> s, body |-> b, days |-> 0] :
            <<s, b>> \in {"ok", "http_error"} \X GeoBodies}

\* what the forecast service can answer; `days` is the length of daily.time
WeatherResponses ==
    {TransportFailure}
    \cup {[transport |-> "ok", status |-> s, body |-> b, days |-> 0] :
            <<s, b>> \in {"ok", "http_error"} \X {"not_json", "no_daily", "short_arrays"}}
    \cup {[transport |-> "ok", status |-> s, body |-> "daily", days |-> n] :
            <<s, n>> \in {"ok", "http_error"} \X (0..MaxForecastDays)}

NoText == [kind |-> "none", msg |-> "none", about |-> "none", days |-> 0]

\* return f"Location '{location}' not found"
NotFoundText(loc) ==
    [kind |-> "returned", msg |-> "Location '...' not found", about |-> loc, days |-> 0]

\* return f"Error getting weather data: {str(e)}"
ErrorText(e) ==
    [kind |-> "returned", msg |-> "Error getting weather data: ...", about |-> e, days |-> 0]

\* return f"Weather forecast for {location}:\n" + "\n".join(days)
ForecastText(loc, n) ==
    [kind |-> "returned", msg |-> "Weather forecast for ...", about |-> loc, days |-> n]

\* the try block's exit by an exception (lines 157-158)
WeatherRaise(e) ==
    /\ w_pc' = "done"
    /\ w_out' = IF CaughtByExcept(e) THEN ErrorText(e)
                ELSE [kind |-> "raised", msg |-> "none", about |-> e, days |-> 0]

\* a test for the key alone: 'results' not in geo_data
ResultsFalsyOnlyWhenMissing(body) == body = "no_results_key"

\* `not geo_data.get('results')`: the key is missing or the list is empty
ResultsFalsy(body) == body \in {"no_results_key", "empty_results"}

WeatherOff ==
    /\ w_pc = "off"
    /\ location = "Atlantis"
    /\ geo_response = NoResponse
    /\ weather_response = NoResponse
    /\ forecast_sent = FALSE
    /\ w_out = NoText

WeatherInit ==
    /\ w_pc = "geo_request"
    /\ location \in Locations
    /\ geo_response = NoResponse
    /\ weather_response = NoResponse
    /\ forecast_sent = FALSE
    /\ w_out = NoText

\* line 120: geo_response = requests.get(geo_url, ...)
GeoRequest ==
    /\ w_pc = "geo_request"
    /\ \E r \in GeoResponses :
        /\ geo_response' = r
        /\ IF r.transport = "failed"
           THEN WeatherRaise("ConnectionError")
           ELSE w_pc' = "geo_decode" /\ UNCHANGED w_out
    /\ UNCHANGED <<location, weather_response, forecast_sent, dvars, pvars>>

\* lines 121-122: raise_for_status(), then json()
GeoDecode ==
    /\ w_pc = "geo_decode"
    /\ IF geo_response.status # "ok" THEN WeatherRaise("HTTPError")
       ELSE IF geo_response.body = "not_json" THEN WeatherRaise("JSONDecodeError")
       ELSE w_pc' = "geo_check" /\ UNCHANGED w_out
    /\ UNCHANGED <<location, geo_response, weather_response, forecast_sent, dvars, pvars>>

\* lines 124-125: the location is not found
GeoCheck ==
    /\ w_pc = "geo_check"
    /\ IF geo_response.body = "not_an_object" THEN WeatherRaise("AttributeError")
       ELSE IF ResultsFalsy(geo_response.body)
       THEN w_pc' = "done" /\ w_out' = NotFoundText(location)
       ELSE w_pc' = "geo_coordinates" /\ UNCHANGED w_out
    /\ UNCHANGED <<location, geo_response, weather_response, forecast_sent, dvars, pvars>>

\* lines 127-129: results[0], its latitude and longitude
GeoCoordinates ==
    /\ w_pc = "geo_coordinates"
    /\ IF geo_response.body = "result" THEN w_pc' = "weather_request" /\ UNCHANGED w_out
       ELSE IF geo_response.body = "empty_results" THEN WeatherRaise("IndexError")
       ELSE WeatherRaise("KeyError")
    /\ UNCHANGED <<location, geo_response, weather_response, forecast_sent, dvars, pvars>>

\* line 141: response = requests.get(base_url, ...)
WeatherRequest ==
    /\ w_pc = "weather_request"
    /\ forecast_sent' = TRUE
    /\ \E r \in WeatherResponses :
        /\ weather_response' = r
        /\ IF r.transport = "failed"
           THEN WeatherRaise("ConnectionError")
           ELSE w_pc' = "weather_decode" /\ UNCHANGED w_out
    /\ UNCHANGED <<location, geo_response, dvars, pvars>>

\* lines 142-143: raise_for_status(), then json()
WeatherDecode ==
    /\ w_pc = "weather_decode"
    /\ IF weather_response.status # "ok" THEN WeatherRaise("HTTPError")
       ELSE IF weather_response.body = "not_json" THEN WeatherRaise("JSONDecodeError")
       ELSE w_pc' = "format" /\ UNCHANGED w_out
    /\ UNCHANGED <<location, geo_response, weather_response, forecast_sent, dvars, pvars>>

\* lines 146-155: one line per day of daily.time
FormatForecast ==
    /\ w_pc = "format"
    /\ IF weather_response.body = "no_daily" THEN WeatherRaise("KeyError")
       ELSE IF weather_response.body = "short_arrays" THEN WeatherRaise("IndexError")
       ELSE w_pc' = "done" /\ w_out' = ForecastText(location, weather_response.days)
    /\ UNCHANGED <<location, geo_response, weather_response, forecast_sent, dvars, pvars>>

(***************************************************************************)
(* LangChainTravelPlanner.plan_trip                                        *)
(***************************************************************************)
Roles == {"user", "assistant", "system"}

Missing == "<missing>"

\* a prior turn as the caller passes it: a dict that has, or lacks, the keys
\* 'role' and 'content'
Turns ==
    {[role |-> r, content |-> "text"] : r \in Roles}
    \cup {[role |-> Missing, content |-> "text"], [role |-> "user", content |-> Missing]}

TurnLists == UNION {[1..n -> Turns] : n \in 0..MaxTurns}

\* request_data: the dict a chat front end builds (src/app.py:72-79), or the
\* bare string main() passes (line 331)
Requests ==
    {[kind |-> "dict", input |-> "a trip", chat_history |-> h] : h \in TurnLists}
    \cup {[kind |-> "str", input |-> "a trip", chat_history |-> <<>>]}

NoRequest == [kind |-> "none", input |-> "none", chat_history |-> <<>>]

\* what agent_executor.ainvoke can return
AgentResponses ==
    {[kind |-> "dict", output |-> "the answer"],
     [kind |-> "dict", output |-> "not_a_string"],
     [kind |-> "dict", output |-> Missing],
     [kind |-> "empty", output |-> Missing]}

NoAgentResponse == [kind |-> "none", output |-> Missing]

HumanMessage(c) == [type |-> "human", content |-> c]

AIMessage(c) == [type |-> "ai", content |-> c]

\* a conversion that tests for 'assistant' and makes every other role human
ConvertOnlyAssistant(msg) ==
    IF msg.role = "assistant" THEN AIMessage(msg.content) ELSE HumanMessage(msg.content)

\* HumanMessage(...) if msg["role"] == "user" else AIMessage(...)
Convert(msg) ==
    IF msg.role = "user" THEN HumanMessage(msg.content) ELSE AIMessage(msg.content)

\* msg["role"] or msg["content"] raises KeyError
Malformed(msg) == msg.role = Missing \/ msg.content = Missing

\* the list comprehension of lines 278-282, built in full before extend()
ConvertAll(turns) == [i \in 1..Len(turns) |-> Convert(turns[i])]

IsSuffix(s, h) ==
    Len(s) <= Len(h) /\ SubSeq(h, Len(h) - Len(s) + 1, Len(h)) = s

\* an extend that skips turns the history already ends with
ExtendedIfNew(history, turns) ==
    IF IsSuffix(ConvertAll(turns), history) THEN history ELSE history \o ConvertAll(turns)

\* self.chat_history.extend(...)
Extended(history, turns) == history \o ConvertAll(turns)

\* `if response and "output" in response`
HasOutput(r) == r.kind = "dict" /\ r.output # Missing

PendingResult == [pending |-> TRUE]

\* lines 297-300
SuccessResult(r) == [success |-> TRUE, data |-> r.output]

\* a failure result that carries an empty data next to the error
NoValidResponseWithData ==
    [success |-> FALSE, data |-> "none",
     error |-> [msg |-> "No valid response from the agent.", exc |-> "none", trace |-> "none"]]

\* lines 302-305
NoValidResponse ==
    [success |-> FALSE,
     error |-> [msg |-> "No valid response from the agent.", exc |-> "none", trace |-> "none"]]

\* lines 310-313: the message of the exception and the formatted traceback,
\* which names the statement that raised
FailureResult(e, stage) ==
    [success |-> FALSE, error |-> [msg |-> "Error in plan_trip: ...", exc |-> e, trace |-> stage]]

\* the record of a finished call: what a successful call was given and what
\* it answered
CallRecord(ok, turns, answer) == [ok |-> ok, turns |-> turns, answer |-> answer]

PlanOff ==
    /\ chat_history = <<>>
    /\ p_pc = "off"
    /\ request_data = NoRequest
    /\ response = NoAgentResponse
    /\ result = PendingResult
    /\ raised_in = "none"
    /\ raised_exc = "none"
    /\ hist_at_call = <<>>
    /\ calls = <<>>

\* __init__ (line 249): self.chat_history = []
PlanInit ==
    /\ chat_history = <<>>
    /\ p_pc = "idle"
    /\ request_data = NoRequest
    /\ response = NoAgentResponse
    /\ result = PendingResult
    /\ raised_in = "none"
    /\ raised_exc = "none"
    /\ hist_at_call = <<>>
    /\ calls = <<>>

\* the except clause (lines 307-313) for an exception e raised by `stage`
PlanRaise(stage, e) ==
    /\ raised_in' = stage
    /\ raised_exc' = e
    /\ IF CaughtByExcept(e)
       THEN /\ p_pc' = "returned"
            /\ result' = FailureResult(e, stage)
            /\ calls' = Append(calls, CallRecord(FALSE, <<>>, "none"))
       ELSE /\ p_pc' = "raised"
            /\ UNCHANGED <<result, calls>>

\* a caller awaits planner.plan_trip(request_data)
Call ==
    /\ p_pc \in {"idle", "returned"}
    /\ Len(calls) < MaxCalls
    /\ \E r \in Requests : request_data' = r
    /\ hist_at_call' = chat_history
    /\ p_pc' = "read"
    /\ response' = NoAgentResponse
    /\ result' = PendingResult
    /\ raised_in' = "none"
    /\ raised_exc' = "none"
    /\ UNCHANGED <<chat_history, calls, dvars, wvars>>

\* lines 261-275: request_data.get("input", ""), then re.search over it
ReadRequest ==
    /\ p_pc = "read"
    /\ IF request_data.kind # "dict" THEN PlanRaise("read", "AttributeError")
       ELSE p_pc' = "convert" /\ UNCHANGED <<result, raised_in, raised_exc, calls>>
    /\ UNCHANGED <<chat_history, request_data, response, hist_at_call, dvars, wvars>>

\* lines 278-282: the prior turns are converted, then appended
ConvertTurns ==
    /\ p_pc = "convert"
    /\ IF \E i \in 1..Len(request_data.chat_history) : Malformed(request_data.chat_history[i])
       THEN PlanRaise("convert", "KeyError") /\ UNCHANGED chat_history
       ELSE /\ chat_history' = Extended(chat_history, request_data.chat_history)
            /\ p_pc' = "format"
            /\ UNCHANGED <<result, raised_in, raised_exc, calls>>
    /\ UNCHANGED <<request_data, response, hist_at_call, dvars, wvars>>

\* lines 285-289: self.prompt.format_messages(...)
FormatPrompt ==
    /\ p_pc = "format"
    /\ \/ p_pc' = "invoke" /\ UNCHANGED <<result, raised_in, raised_exc, calls>>
       \/ PlanRaise("format", "KeyError")
    /\ UNCHANGED <<chat_history, request_data, response, hist_at_call, dvars, wvars>>

\* line 292: response = await self.agent_executor.ainvoke(...)
InvokeAgent ==
    /\ p_pc = "invoke"
    /\ \/ /\ \E r \in AgentResponses : response' = r
          /\ p_pc' = "unwrap"
          /\ UNCHANGED <<result, raised_in, raised_exc, calls>>
       \/ /\ PlanRaise("invoke", "APIError")
          /\ UNCHANGED response
    /\ UNCHANGED <<chat_history, request_data, hist_at_call, dvars, wvars>>

\* lines 295-305: the answer is appended and returned, or there is none
Unwrap ==
    /\ p_pc = "unwrap"
    /\ IF HasOutput(response)
       THEN IF response.output = "not_a_string"
            THEN PlanRaise("unwrap", "ValidationError") /\ UNCHANGED chat_history
            ELSE /\ chat_history' = Append(chat_history, AIMessage(response.output))
                 /\ result' = SuccessResult(response)
                 /\ calls' = Append(calls,
                        CallRecord(TRUE, request_data.chat_history, response.output))
                 /\ p_pc' = "returned"
                 /\ UNCHANGED <<raised_in, raised_exc>>
       ELSE /\ result' = NoValidResponse
            /\ calls' = Append(calls, CallRecord(FALSE, <<>>, "none"))
            /\ p_pc' = "returned"
            /\ UNCHANGED <<chat_history, raised_in, raised_exc>>
    /\ UNCHANGED <<request_data, response, hist_at_call, dvars, wvars>>

(***************************************************************************)
(* The specifications.                                                     *)
(***************************************************************************)
InitDate == DateInit /\ WeatherOff /\ PlanOff

NextDate == Resolve

SpecDate == InitDate /\ [][NextDate]_vars

InitWeather == DateOff /\ WeatherInit /\ PlanOff

NextWeather ==
    \/ GeoRequest
    \/ GeoDecode
    \/ GeoCheck
    \/ GeoCoordinates
    \/ WeatherRequest
    \/ WeatherDecode
    \/ FormatForecast

SpecWeather == InitWeather /\ [][NextWeather]_vars

InitPlan == DateOff /\ WeatherOff /\ PlanInit

NextPlan ==
    \/ Call
    \/ ReadRequest
    \/ ConvertTurns
    \/ FormatPrompt
    \/ InvokeAgent
    \/ Unwrap

SpecPlan == InitPlan /\ [][NextPlan]_vars

Init == InitDate \/ InitWeather \/ InitPlan

Next == NextDate \/ NextWeather \/ NextPlan

Spec == Init /\ [][Next]_vars

(***************************************************************************)
(* Claims about parse_date_with_reference, checked under SpecDate.         *)
(***************************************************************************)
IsDec31(d) == d.month = 12 /\ d.day = 31

\* the year the rollover rule of the specification selects for month m, day d
RuleYear(m, d, ref) ==
    IF Earlier(MkDate(ref.year, m, d), ref) /\ ~IsDec31(ref)
    THEN ref.year + 1 ELSE ref.year

\* C4 (as claimed): a string with an explicit year that names a calendar day
\* resolves to exactly that day of that year, whatever the reference date.
C4_ExplicitYearKept ==
    (d_pc = "done" /\ date_str.year # 0
        /\ ValidDate(date_str.year, date_str.month, date_str.day))
    => (d_out.kind = "returned"
        /\ d_out.value = MkDate(date_str.year, date_str.month, date_str.day))

C6_NeverRaises ==
    d_pc = "done"
    => (/\ d_out.kind = "returned"
        /\ (d_out.path = "fallback" => d_out.value = reference_date))

\* C7 (as claimed): "MM/DD" naming a day of year(R) is resolved by the
\* numeric pattern to that month and day, in the year the rollover rule
\* selects.
C7_NumericPattern ==
    (d_pc = "done" /\ date_str.shape = "Slash" /\ date_str.year = 0
        /\ ValidDate(reference_date.year, date_str.month, date_str.day)
        /\ ValidDate(RuleYear(date_str.month, date_str.day, reference_date),
                     date_str.month, date_str.day))
    => (d_out.kind = "returned" /\ d_out.path = "pattern"
        /\ d_out.value = MkDate(RuleYear(date_str.month, date_str.day, reference_date),
                                date_str.month, date_str.day))

\* C8: when the reference date is not December 31, a date the resolver
\* returns (by a pattern, by the lenient parser or by the fallback) is not
\* earlier than the reference date.
C8_NotBeforeReference ==
    (d_pc = "done" /\ d_out.kind = "returned" /\ ~IsDec31(reference_date))
    => ~Earlier(d_out.value, reference_date)

\* the resolver returned a date that its same-year reading put before the
\* reference date
C8_Witness ==
    /\ d_pc = "done" /\ d_out.kind = "returned" /\ d_out.path = "pattern"
    /\ ~IsDec31(reference_date)
    /\ Earlier(MkDate(reference_date.year, date_str.month, date_str.day), reference_date)
    /\ Earlier(reference_date, d_out.value)

(***************************************************************************)
(* Claims about get_weather_forecast, checked under SpecWeather.           *)
(***************************************************************************)
GeoFailed ==
    \/ geo_response.transport = "failed"
    \/ geo_response.status # "ok"
    \/ geo_response.body \in {"not_json", "not_an_object"}

ForecastFailed ==
    /\ forecast_sent
    /\ \/ weather_response.transport = "failed"
       \/ weather_response.status # "ok"
       \/ weather_response.body \in {"not_json", "no_daily", "short_arrays"}

GeoFoundNothing ==
    /\ geo_response.transport = "ok" /\ geo_response.status = "ok"
    /\ geo_response.body \in {"no_results_key", "empty_results"}

\* C9: the weather tool always returns text and never raises: a failed or
\* malformed geocoding or forecast response gives an error text; a geocoding
\* response without results gives "Location '<location>' not found" and no
\* forecast request; the forecast request is sent only after a geocoding
\* response that holds a result.
C9_WeatherReturnsText ==
    /\ w_out.kind # "raised"
    /\ w_pc = "done" => w_out.kind = "returned"
    /\ (w_pc = "done" /\ (GeoFailed \/ ForecastFailed))
        => (w_out.msg = "Error getting weather data: ..." /\ w_out.about \in DOMAIN ExceptionBase)
    /\ (w_pc = "done" /\ GeoFoundNothing)
        => (w_out = NotFoundText(location) /\ ~forecast_sent)
    /\ forecast_sent
        => (/\ geo_response.transport = "ok" /\ geo_response.status = "ok"
            /\ geo_response.body \in {"result", "result_without_coordinates"})

\* geocoding answered with an empty result list for "Atlantis"
C9_Witness ==
    /\ w_pc = "done" /\ location = "Atlantis"
    /\ geo_response.body = "empty_results" /\ geo_response.status = "ok"
    /\ w_out = NotFoundText("Atlantis") /\ ~forecast_sent

(***************************************************************************)
(* Claims about plan_trip, checked under SpecPlan.                         *)
(***************************************************************************)
IsPrefix(s, h) == Len(s) <= Len(h) /\ SubSeq(h, 1, Len(s)) = s

\* a caller's turn as the history is claimed to hold it: role 'user' as a
\* human turn, every other role as an assistant turn
ClaimedTurn(msg) ==
    [type |-> IF msg.role = "user" THEN "human" ELSE "ai", content |-> msg.content]

ClaimedTurns(turns) == [i \in 1..Len(turns) |-> ClaimedTurn(turns[i])]

\* the history the claim gives for a sequence of successful calls
RECURSIVE ClaimedHistory(_)
ClaimedHistory(cs) ==
    IF cs = <<>> THEN <<>>
    ELSE LET last == cs[Len(cs)] IN
         ClaimedHistory(SubSeq(cs, 1, Len(cs) - 1))
            \o ClaimedTurns(last.turns)
            \o <<[type |-> "ai", content |-> last.answer]>>

Idle == p_pc \in {"idle", "returned"}

\* C1: chat_history only grows during a call (the history at the start of
\* the call is a prefix of it); the prior turns are in it, converted, when
\* the model is invoked; and after N calls that all succeeded it is, in
\* order, each call's converted prior turns followed by that call's answer.
C1_HistoryAppendOnly ==
    /\ IsPrefix(hist_at_call, chat_history)
    /\ p_pc \in {"format", "invoke", "unwrap"}
        => chat_history = hist_at_call \o ClaimedTurns(request_data.chat_history)
    /\ (Idle /\ \A i \in 1..Len(calls) : calls[i].ok)
        => chat_history = ClaimedHistory(calls)

\* two successful calls, the second with a 'system' turn and a 'user' turn
C1_Witness ==
    /\ p_pc = "returned" /\ Len(calls) = 2
    /\ calls[1].ok /\ calls[2].ok
    /\ Len(calls[1].turns) > 0
    /\ \E i, j \in 1..Len(calls[2].turns) :
        calls[2].turns[i].role = "system" /\ calls[2].turns[j].role = "user"
    /\ Len(chat_history) = Len(calls[1].turns) + Len(calls[2].turns) + 2

\* C2: every result plan_trip returns has exactly one of the keys data and
\* error, and success is true exactly when it is data.
C2_EnvelopeExclusive ==
    p_pc = "returned"
    => (/\ ("data" \in DOMAIN result) # ("error" \in DOMAIN result)
        /\ "success" \in DOMAIN result
        /\ result.success = ("data" \in DOMAIN result))

\* the agent answered without an 'output' and the call returned a failure
C2_Witness ==
    /\ p_pc = "returned" /\ response.kind # "none" /\ ~HasOutput(response)
    /\ result.success = FALSE /\ "error" \in DOMAIN result

C10_FailureFrame ==
    (p_pc = "returned" /\ result.success = FALSE)
    => (/\ raised_in \in {"read", "convert"} => chat_history = hist_at_call
        /\ raised_in \notin {"read", "convert"}
            => chat_history = hist_at_call \o ClaimedTurns(request_data.chat_history))

\* a failed call retried with the same prior turns: the history holds them
\* twice
C10_Witness ==
    /\ p_pc = "returned" /\ Len(calls) = 2 /\ ~calls[1].ok /\ ~calls[2].ok
    /\ raised_in = "invoke"
    /\ Len(request_data.chat_history) > 0
    /\ hist_at_call = ClaimedTurns(request_data.chat_history)
    /\ chat_history = hist_at_call \o hist_at_call

====
